---- MODULE Spec2Model ----
(***************************************************************************)
(* The durable metadata state machine of a blb curator: the raft.FSM       *)
(* implementation of StateHandler (internal/curator/durable/fsm.go) over   *)
(* the transactional state layer (internal/curator/durable/state).         *)
(*                                                                         *)
(* The database is the record `state` (one field per bucket / meta key);   *)
(* a transaction is a copy of it that the handlers transform and that      *)
(* Commit installs.  Apply is one atomic action: raft never issues two     *)
(* Apply calls in parallel.                                                *)
(***************************************************************************)
EXTENDS Integers, Sequences, FiniteSets, TLC

(***************************************************************************)
(* Bounds of the model.                                                    *)
(***************************************************************************)
\* Highest raft log index handed to Apply when every command is in play.
MaxIndex == 3
\* Highest raft log index handed to Apply on the blob path alone.
BlobMaxIndex == 5
\* Partition ids are 1..MaxPartition.
MaxPartition == 2
\* Stand-in for core.MaxBlobKey (the largest uint32): the reserved key that
\* marks a partition as full, scaled down so that a partition fills up.
MaxBlobKey == 3
\* Stand-in for core.MaxRSChunkKey, scaled down likewise.
MaxRSChunkKey == 3
\* Replication factors requested by CreateBlob are 1..MaxRepl; tractserver
\* ids are 1..MaxRepl as well.
MaxRepl == 2
\* Stand-in for the largest value of a tract's 32-bit version, scaled down
\* so that a tract can be changed that many times.
MaxVersion == 3
\* Timestamps are 1..MaxTime (0 means "unset").
MaxTime == 2
\* Checksums are folded modulo ChecksumMod.
ChecksumMod == 3

(***************************************************************************)
(* Values.                                                                 *)
(***************************************************************************)
Nil == [nil |-> TRUE]

\* core.Error kinds.
NoError == "NoError"
ErrAlreadyExists == "AlreadyExists"
ErrNoSuchBlob == "NoSuchBlob"
ErrNoSuchTract == "NoSuchTract"
ErrInvalidArgument == "InvalidArgument"
ErrExtendConflict == "ExtendConflict"
ErrConflictingState == "ConflictingState"
ErrGenBlobID == "GenBlobID"
ErrReadOnlyMode == "ReadOnlyMode"

\* Storage classes; a blob without a Storage field is REPLICATED.
StorageClass_REPLICATED == "REPLICATED"
StorageClass_RS_6_3 == "RS_6_3"

\* The type tag of an erasure-coded partition id (core.RSPartition).
RSPartition == "RS"

Indices == 1..MaxIndex
BlobIndices == 1..BlobMaxIndex
PartitionIDs == 1..MaxPartition
BlobKeys == 1..(MaxBlobKey - 1)
TSIDs == 1..MaxRepl
Times == 1..MaxTime

\* core.BlobIDFromParts: a BlobID is (partition, key).
BlobIDFromParts(p, k) == <<p, k>>
\* core.TractIDFromParts: a TractID is (blob, 0-based index).
TractIDFromParts(b, i) == [Blob |-> b, Index |-> i]
BlobIDs == {BlobIDFromParts(p, k) : p \in PartitionIDs, k \in BlobKeys}
ZeroBlobID == BlobIDFromParts(0, 0)

\* Host vectors: replica groups of 1..MaxRepl distinct tractservers, listed in
\* ascending order, and one more group of a single host.
HostVectors == {[i \in 1..n |-> i] : n \in 1..MaxRepl} \cup {<<MaxRepl>>}

Max(a, b) == IF a >= b THEN a ELSE b

RECURSIVE SortedSeq(_)
\* The elements of a finite set of integers in ascending order.
SortedSeq(S) ==
  IF S = {} THEN <<>>
  ELSE LET m == CHOOSE x \in S : \A y \in S : x <= y
       IN <<m>> \o SortedSeq(S \ {m})

RECURSIVE SeqSum(_)
SeqSum(s) == IF s = <<>> THEN 0 ELSE Head(s) + SeqSum(Tail(s))

Range(s) == {s[i] : i \in DOMAIN s}

(***************************************************************************)
(* The state layer: typed transactions over the buckets.  Its source is    *)
(* not part of the files at hand (only its tests are); it is modelled from *)
(* the specification, sections 4.1 to 4.3.                                  *)
(***************************************************************************)
\* A freshly opened database: every bucket empty, applied index 0.
EmptyState ==
  [index |-> 0, readOnly |-> FALSE, curatorID |-> 0,
   hasTSIDs |-> FALSE, tsids |-> {},
   partitions |-> <<>>, blobs |-> <<>>, rschunks |-> <<>>]

GetIndex(t) == t.index
GetReadOnlyMode(t) == t.readOnly
SetReadOnlyMode(t, ro) == [t EXCEPT !.readOnly = ro]
GetCuratorID(t) == t.curatorID
SetCuratorID(t, id) == [t EXCEPT !.curatorID = id]
\* core.CuratorID.IsValid: 0 is the unset id.
IsValid(id) == id # 0

\* Commit of a write transaction opened at `index`: the applied index is
\* written with the rest of the transaction.
Commit(t, index) == [t EXCEPT !.index = index]

GetPartition(t, id) ==
  IF id \in DOMAIN t.partitions THEN t.partitions[id] ELSE Nil
\* All partitions, ordered by id.
GetPartitions(t) ==
  LET ids == SortedSeq(DOMAIN t.partitions)
  IN [i \in DOMAIN ids |-> t.partitions[ids[i]]]
PutPartition(t, p) ==
  [t EXCEPT !.partitions = (p.Id :> p) @@ t.partitions]

\* Every tractserver id a blob record names.
BlobTSIDs(blob) == UNION {Range(blob.Tracts[i].Hosts) : i \in DOMAIN blob.Tracts}
ChunkTSIDs(chunk) == Range(chunk.Hosts)

\* The known-TSID cache is maintained additively once it exists.
AddKnownTSIDs(t, ids) ==
  IF t.hasTSIDs THEN [t EXCEPT !.tsids = t.tsids \cup ids] ELSE t

GetBlobAll(t, id) == IF id \in DOMAIN t.blobs THEN t.blobs[id] ELSE Nil
\* Missing and soft-deleted blobs are both invisible to GetBlob.
GetBlob(t, id) ==
  IF id \in DOMAIN t.blobs /\ t.blobs[id].Deleted = 0 THEN t.blobs[id] ELSE Nil
PutBlob(t, id, blob) ==
  AddKnownTSIDs([t EXCEPT !.blobs = (id :> blob) @@ t.blobs], BlobTSIDs(blob))

GetRSChunk(t, id) == IF id \in DOMAIN t.rschunks THEN t.rschunks[id] ELSE Nil

\* DeleteBlob stamps the soft-delete time of a visible blob.
DeleteBlob(t, id, when) ==
  IF GetBlob(t, id) = Nil THEN [txn |-> t, err |-> ErrNoSuchBlob]
  ELSE [txn |-> [t EXCEPT !.blobs[id].Deleted = when], err |-> NoError]

\* UndeleteBlob clears the stamp; a blob that is not deleted is left alone.
UndeleteBlob(t, id) ==
  IF GetBlobAll(t, id) = Nil THEN [txn |-> t, err |-> ErrNoSuchBlob]
  ELSE [txn |-> [t EXCEPT !.blobs[id].Deleted = 0], err |-> NoError]

\* An RS chunk without the EncodedTract entries of the blobs in `ids`.
PurgeChunk(chunk, ids) ==
  [chunk EXCEPT !.Data =
     [i \in DOMAIN chunk.Data |->
        SelectSeq(chunk.Data[i], LAMBDA e : e.ID.Blob \notin ids)]]

\* FinishDeleteBlobs removes each listed blob and drops its tracts from every
\* RS chunk.
FinishDeleteBlobs(t, ids) ==
  [txn |-> [t EXCEPT
      !.blobs = [b \in DOMAIN t.blobs \ Range(ids) |-> t.blobs[b]],
      !.rschunks = [c \in DOMAIN t.rschunks |-> PurgeChunk(t.rschunks[c], Range(ids))]],
   err |-> NoError]

SetBlobMetadata(t, id, md) ==
  IF GetBlob(t, id) = Nil THEN [txn |-> t, err |-> ErrNoSuchBlob]
  ELSE [txn |-> [t EXCEPT !.blobs[id].Metadata = md], err |-> NoError]

UpdateStorageClass(t, id, class) ==
  IF GetBlob(t, id) = Nil THEN [txn |-> t, err |-> ErrNoSuchBlob]
  ELSE [txn |-> [t EXCEPT !.blobs[id].Storage = class], err |-> NoError]

\* One (blob, mtime, atime) update: times only move forward, 0 means "leave",
\* a blob that does not exist is skipped.
UpdateTime(t, u) ==
  IF GetBlob(t, u.Blob) = Nil THEN t
  ELSE [t EXCEPT !.blobs[u.Blob].Mtime = Max(@, u.MTime),
                 !.blobs[u.Blob].Atime = Max(@, u.ATime)]

RECURSIVE BatchUpdateTimes(_, _)
BatchUpdateTimes(t, updates) ==
  IF updates = <<>> THEN t
  ELSE BatchUpdateTimes(UpdateTime(t, Head(updates)), Tail(updates))

PutRSChunk(t, id, storage, hosts, data) ==
  LET chunk == [Storage |-> storage, Hosts |-> hosts, Data |-> data]
  IN [txn |-> AddKnownTSIDs([t EXCEPT !.rschunks = (id :> chunk) @@ t.rschunks],
                            ChunkTSIDs(chunk)),
      err |-> NoError]

UpdateRSHosts(t, id, hosts) ==
  IF GetRSChunk(t, id) = Nil THEN [txn |-> t, err |-> ErrNoSuchBlob]
  ELSE [txn |-> AddKnownTSIDs([t EXCEPT !.rschunks[id].Hosts = hosts], Range(hosts)),
        err |-> NoError]

\* CreateTSIDCache scans every blob and RS chunk once; idempotent.
CreateTSIDCache(t) ==
  [txn |-> IF t.hasTSIDs THEN t
           ELSE [t EXCEPT !.hasTSIDs = TRUE,
                          !.tsids = UNION ({BlobTSIDs(t.blobs[b]) : b \in DOMAIN t.blobs}
                                     \cup {ChunkTSIDs(t.rschunks[c]) : c \in DOMAIN t.rschunks})],
   err |-> NoError]

\* The sentinel GetKnownTSIDs fails with while there is no cache.
ErrNoTSIDs == "NoTSIDs"
\* GetKnownTSIDs returns the cached ids in ascending order, or fails.
GetKnownTSIDs(t) ==
  IF t.hasTSIDs THEN [ids |-> SortedSeq(t.tsids), err |-> NoError]
  ELSE [ids |-> <<>>, err |-> ErrNoTSIDs]

\* The blob bucket's keys in ascending (partition, key) order.
BlobKeyCode(id) == id[1] * (MaxBlobKey + 1) + id[2]
BlobCodeToID(c) == BlobIDFromParts(c \div (MaxBlobKey + 1), c % (MaxBlobKey + 1))
SortedBlobIDs(t) ==
  LET codes == SortedSeq({BlobKeyCode(b) : b \in DOMAIN t.blobs})
  IN [i \in DOMAIN codes |-> BlobCodeToID(codes[i])]

\* What one blob record contributes to a checksum: every stored field counts.
TractDigest(tr) == tr.Version + 2 * SeqSum(tr.Hosts)
BlobDigest(id, blob) ==
  BlobKeyCode(id) + blob.Repl + blob.Hint + blob.Mtime + 2 * blob.Atime
  + blob.Expires + blob.Deleted + blob.Metadata
  + (IF blob.Storage = StorageClass_REPLICATED THEN 0 ELSE 1)
  + SeqSum([i \in DOMAIN blob.Tracts |-> (i + 1) * TractDigest(blob.Tracts[i])])

RECURSIVE FoldChecksum(_, _, _)
FoldChecksum(t, ids, h) ==
  IF ids = <<>> THEN h
  ELSE FoldChecksum(t, Tail(ids),
                    (2 * h + BlobDigest(Head(ids), t.blobs[Head(ids)])) % ChecksumMod)

\* Checksum(start, n): a fold over the first n blob records at or after
\* `start`, and the key to continue from (the zero id at the end).
Checksum(t, start, n) ==
  LET from == SelectSeq(SortedBlobIDs(t),
                        LAMBDA b : BlobKeyCode(b) >= BlobKeyCode(start))
      slice == SubSeq(from, 1, IF n < Len(from) THEN n ELSE Len(from))
  IN [cksum |-> FoldChecksum(t, slice, 0),
      next |-> IF n < Len(from) THEN from[n + 1] ELSE ZeroBlobID]

(***************************************************************************)
(* The command handlers of fsm.go.  Each takes the write transaction and   *)
(* the command and yields the transaction after it and the result.         *)
(***************************************************************************)
\* A run-time panic of the Go program (an index out of range).
Panic == [Panic |-> "index out of range"]
IsPanic(res) == "Panic" \in DOMAIN res

\* addPartition without the look-up: the record is written over.
addPartition_Overwrite(id, txn) ==
  [txn |-> PutPartition(txn, [Id |-> id, NextBlobKey |-> 1, NextRsChunkKey |-> 0]),
   err |-> IF GetPartition(txn, id) # Nil THEN ErrAlreadyExists ELSE NoError]

addPartition(id, txn) ==
  IF GetPartition(txn, id) # Nil
  THEN [txn |-> txn, err |-> ErrAlreadyExists]
  ELSE [txn |-> PutPartition(txn, [Id |-> id, NextBlobKey |-> 1, NextRsChunkKey |-> 0]),
        err |-> NoError]

\* A registration that stores the id whatever is stored.
SetRegistrationApply_Overwrite(cmd, txn) ==
  LET t == SetCuratorID(txn, cmd.ID)
  IN [txn |-> t, res |-> [ID |-> GetCuratorID(t)]]

SetRegistrationApply(cmd, txn) ==
  LET t == IF ~IsValid(GetCuratorID(txn)) THEN SetCuratorID(txn, cmd.ID) ELSE txn
  IN [txn |-> t, res |-> [ID |-> GetCuratorID(t)]]

AddPartitionApply(cmd, txn) ==
  LET r == addPartition(cmd.ID, txn)
  IN [txn |-> r.txn, res |-> [Err |-> r.err]]

RECURSIVE SyncPartitionsLoop(_, _)
\* The errors of addPartition are ignored on purpose: duplicates are expected.
SyncPartitionsLoop(ids, txn) ==
  IF ids = <<>> THEN txn
  ELSE SyncPartitionsLoop(Tail(ids), addPartition(Head(ids), txn).txn)

SyncPartitionsApply(cmd, txn) ==
  [txn |-> SyncPartitionsLoop(cmd.Partitions, txn), res |-> [Err |-> NoError]]

\* A fullness test that lets the reserved key through.
HasBlobRoom_UpTo(p) == p.NextBlobKey <= MaxBlobKey

\* The partition a new blob goes to qualifies when it is not full.
HasBlobRoom(p) == p.NextBlobKey # MaxBlobKey

\* The first element of a sequence that satisfies Test, or Nil.
FirstThat(seq, Test(_)) ==
  LET hits == {i \in DOMAIN seq : Test(seq[i])}
  IN IF hits = {} THEN Nil
     ELSE seq[CHOOSE i \in hits : \A j \in hits : i <= j]

\* A CreateBlob that leaves the partition's next_blob_key where it was.
CreateBlobApply_NoAdvance(cmd, txn) ==
  LET partition == FirstThat(GetPartitions(txn), HasBlobRoom)
  IN IF partition = Nil
     THEN [txn |-> txn, res |-> [ID |-> ZeroBlobID, Err |-> ErrGenBlobID]]
     ELSE LET ID == BlobIDFromParts(partition.Id, partition.NextBlobKey)
              blob == [Repl |-> cmd.Repl, Mtime |-> cmd.InitialTime,
                       Atime |-> cmd.InitialTime, Hint |-> cmd.Hint,
                       Expires |-> cmd.Expires, Deleted |-> 0, Metadata |-> 0,
                       Storage |-> StorageClass_REPLICATED, Tracts |-> <<>>]
          IN [txn |-> PutBlob(txn, ID, blob), res |-> [ID |-> ID, Err |-> NoError]]

CreateBlobApply(cmd, txn) ==
  LET partition == FirstThat(GetPartitions(txn), HasBlobRoom)
  IN IF partition = Nil
     THEN [txn |-> txn, res |-> [ID |-> ZeroBlobID, Err |-> ErrGenBlobID]]
     ELSE LET key == partition.NextBlobKey
              t1 == PutPartition(txn, [partition EXCEPT !.NextBlobKey = @ + 1])
              ID == BlobIDFromParts(partition.Id, key)
              blob == [Repl |-> cmd.Repl, Mtime |-> cmd.InitialTime,
                       Atime |-> cmd.InitialTime, Hint |-> cmd.Hint,
                       Expires |-> cmd.Expires, Deleted |-> 0, Metadata |-> 0,
                       Storage |-> StorageClass_REPLICATED, Tracts |-> <<>>]
          IN [txn |-> PutBlob(t1, ID, blob), res |-> [ID |-> ID, Err |-> NoError]]

\* A DeleteBlob that reports the state layer's verdict and drops its write.
DeleteBlobApply_Unstamped(cmd, txn) ==
  [txn |-> txn, res |-> [Err |-> DeleteBlob(txn, cmd.ID, cmd.When).err]]

DeleteBlobApply(cmd, txn) ==
  LET r == DeleteBlob(txn, cmd.ID, cmd.When)
  IN [txn |-> r.txn, res |-> [Err |-> r.err]]

UndeleteBlobApply(cmd, txn) ==
  LET r == UndeleteBlob(txn, cmd.ID)
  IN [txn |-> r.txn, res |-> [Err |-> r.err]]

\* A FinishDelete that removes the blobs and leaves the RS chunks as they are.
FinishDeleteApply_BlobsOnly(cmd, txn) ==
  LET r == FinishDeleteBlobs(txn, cmd.Blobs)
  IN [txn |-> [r.txn EXCEPT !.rschunks = txn.rschunks], res |-> [Err |-> r.err]]

FinishDeleteApply(cmd, txn) ==
  LET r == FinishDeleteBlobs(txn, cmd.Blobs)
  IN [txn |-> r.txn, res |-> [Err |-> r.err]]

SetMetadataApply(cmd, txn) ==
  LET r == SetBlobMetadata(txn, cmd.ID, cmd.Metadata)
  IN [txn |-> r.txn, res |-> [Err |-> r.err]]

\* A tract-key test that accepts a stale key.
ExtendKeyMatches_AtMost(cmd, blob) == cmd.FirstTractKey <= Len(blob.Tracts)

\* The tract key of an extension must be the blob's tract count.
ExtendKeyMatches(cmd, blob) == cmd.FirstTractKey = Len(blob.Tracts)

\* Every host vector of an extension must have the blob's replication factor.
ExtendHostsOK(cmd, blob) ==
  \A i \in DOMAIN cmd.Hosts : Len(cmd.Hosts[i]) = blob.Repl

ExtendBlobApply(cmd, txn) ==
  LET blob == GetBlob(txn, cmd.ID)
  IN IF blob = Nil
     THEN [txn |-> txn, res |-> [Err |-> ErrNoSuchBlob, NewSize |-> 0]]
     ELSE IF ~ExtendKeyMatches(cmd, blob)
     THEN [txn |-> txn, res |-> [Err |-> ErrExtendConflict, NewSize |-> 0]]
     ELSE IF ~ExtendHostsOK(cmd, blob)
     THEN [txn |-> txn, res |-> [Err |-> ErrInvalidArgument, NewSize |-> 0]]
     ELSE LET tracts == blob.Tracts \o
                          [i \in DOMAIN cmd.Hosts |-> [Hosts |-> cmd.Hosts[i], Version |-> 1]]
          IN [txn |-> PutBlob(txn, cmd.ID, [blob EXCEPT !.Tracts = tracts]),
              res |-> [Err |-> NoError, NewSize |-> Len(tracts)]]

\* The bounds check of ChangeTract on the 0-based tract index.
TractIndexTooBig(index, blob) == index > Len(blob.Tracts)

\* ChangeTract without the test of the number of replicas.
SameHostCount_Any(tract, cmd) == TRUE

\* A new replica group must have as many hosts as the old one.
SameHostCount(tract, cmd) == Len(tract.Hosts) = Len(cmd.NewHosts)

\* A version test that accepts any newer version.
VersionIsNext_Newer(tract, cmd) == tract.Version < cmd.NewVersion

\* tract.Version + 1 in the version's unsigned 32-bit arithmetic.
NextVersion(v) == (v + 1) % (MaxVersion + 1)

\* A tract's version may only go up by one.
VersionIsNext(tract, cmd) == NextVersion(tract.Version) = cmd.NewVersion

ChangeTractApply(cmd, txn) ==
  LET blob == GetBlob(txn, cmd.ID.Blob)
  IN IF blob = Nil
     THEN [txn |-> txn, res |-> [Err |-> ErrNoSuchBlob]]
     ELSE IF TractIndexTooBig(cmd.ID.Index, blob)
     THEN [txn |-> txn, res |-> [Err |-> ErrNoSuchTract]]
     ELSE IF cmd.ID.Index + 1 \notin DOMAIN blob.Tracts
     THEN \* blob.Tracts[cmd.ID.Index] with the index out of range
          [txn |-> txn, res |-> Panic]
     ELSE LET tract == blob.Tracts[cmd.ID.Index + 1]
          IN IF ~SameHostCount(tract, cmd)
             THEN [txn |-> txn, res |-> [Err |-> ErrInvalidArgument]]
             ELSE IF ~VersionIsNext(tract, cmd)
             THEN [txn |-> txn, res |-> [Err |-> ErrConflictingState]]
             ELSE LET changed == [Hosts |-> cmd.NewHosts,
                                  Version |-> NextVersion(tract.Version)]
                      info == [Tract |-> cmd.ID, Version |-> changed.Version,
                               TSIDs |-> changed.Hosts]
                  IN [txn |-> PutBlob(txn, cmd.ID.Blob,
                                      [blob EXCEPT !.Tracts[cmd.ID.Index + 1] = changed]),
                      res |-> [Err |-> NoError, Info |-> info]]

\* An UpdateTimes in which only the last update of the batch counts.
UpdateTimesApply_LastOnly(cmd, txn) ==
  [txn |-> IF cmd.Updates = <<>> THEN txn
           ELSE BatchUpdateTimes(txn, <<cmd.Updates[Len(cmd.Updates)]>>),
   res |-> [Err |-> NoError]]

UpdateTimesApply(cmd, txn) ==
  [txn |-> BatchUpdateTimes(txn, cmd.Updates), res |-> [Err |-> NoError]]

\* core.RSChunkID of an allocation: the RS-tagged partition id and the key.
RSChunkID(partition, key) == [Partition |-> <<RSPartition, partition>>, ID |-> key]

\* An allocation that does not advance the partition's counter.
AllocateRSChunkIDsApply_NoAdvance(cmd, txn) ==
  LET Fits(p) == p.NextRsChunkKey + cmd.N <= MaxRSChunkKey
      part == FirstThat(GetPartitions(txn), Fits)
  IN IF part = Nil
     THEN [txn |-> txn, res |-> [ID |-> RSChunkID(0, 0), Err |-> ErrGenBlobID]]
     ELSE LET key == IF part.NextRsChunkKey = 0 THEN 1 ELSE part.NextRsChunkKey
          IN [txn |-> PutPartition(txn, [part EXCEPT !.NextRsChunkKey = key]),
              res |-> [ID |-> RSChunkID(part.Id, key), Err |-> NoError]]

AllocateRSChunkIDsApply(cmd, txn) ==
  LET Fits(p) == p.NextRsChunkKey + cmd.N <= MaxRSChunkKey
      part == FirstThat(GetPartitions(txn), Fits)
  IN IF part = Nil
     THEN [txn |-> txn, res |-> [ID |-> RSChunkID(0, 0), Err |-> ErrGenBlobID]]
     ELSE LET key == IF part.NextRsChunkKey = 0 THEN 1 ELSE part.NextRsChunkKey
          IN [txn |-> PutPartition(txn, [part EXCEPT !.NextRsChunkKey = key + cmd.N]),
              res |-> [ID |-> RSChunkID(part.Id, key), Err |-> NoError]]

CommitRSChunkApply(cmd, txn) ==
  LET r == PutRSChunk(txn, cmd.ID, cmd.Storage, cmd.Hosts, cmd.Data)
  IN [txn |-> r.txn, res |-> [Err |-> r.err]]

UpdateRSHostsApply(cmd, txn) ==
  LET r == UpdateRSHosts(txn, cmd.ID, cmd.Hosts)
  IN [txn |-> r.txn, res |-> [Err |-> r.err]]

UpdateStorageClassApply(cmd, txn) ==
  LET r == UpdateStorageClass(txn, cmd.ID, cmd.Storage)
  IN [txn |-> r.txn, res |-> [Err |-> r.err]]

\* A CreateTSIDCache that reports success and builds nothing.
CreateTSIDCacheApply_Skip(cmd, txn) == [txn |-> txn, res |-> [Err |-> NoError]]

CreateTSIDCacheApply(cmd, txn) ==
  LET r == CreateTSIDCache(txn)
  IN [txn |-> r.txn, res |-> [Err |-> r.err]]

(***************************************************************************)
(* The commands that flow through the log.                                 *)
(***************************************************************************)
CuratorIDs == {1, 2}
HostLists == {<<>>} \cup {<<h>> : h \in HostVectors} \cup {<<<<1>>, <<MaxRepl>>>>}
TractKeys == {0, 1}
TractIDs == {TractIDFromParts(b, i) : b \in BlobIDs, i \in TractKeys}
RSChunkIDs == {RSChunkID(1, 1)}
\* The data pieces of a committed RS chunk: one data piece, empty or packed
\* with the first tract of one blob.
EncodedTract(tid) == [ID |-> tid, Offset |-> 0, Length |-> 1]
RSData == {<<<<>>>>} \cup {<<<<EncodedTract(TractIDFromParts(b, 0))>>>> : b \in BlobIDs}

SetReadOnlyModeCmds == {[kind |-> "SetReadOnlyMode", ReadOnly |-> b] : b \in BOOLEAN}
SetRegistrationCmds == {[kind |-> "SetRegistration", ID |-> c] : c \in CuratorIDs}
AddPartitionCmds == {[kind |-> "AddPartition", ID |-> p] : p \in PartitionIDs}
SyncPartitionsCmds ==
  {[kind |-> "SyncPartitions", Partitions |-> ps] :
     ps \in {<<>>, <<MaxPartition, 1>>, <<1, 1>>}}
CreateBlobCmds ==
  {[kind |-> "CreateBlob", Repl |-> r, Hint |-> 0, InitialTime |-> t, Expires |-> e] :
     r \in 1..MaxRepl, t \in Times, e \in {0}}
DeleteBlobCmds == {[kind |-> "DeleteBlob", ID |-> b, When |-> MaxTime] : b \in BlobIDs}
UndeleteBlobCmds == {[kind |-> "UndeleteBlob", ID |-> b] : b \in BlobIDs}
FinishDeleteCmds ==
  {[kind |-> "FinishDelete", Blobs |-> bs] : bs \in {<<>>} \cup {<<b>> : b \in BlobIDs}}
SetMetadataCmds == {[kind |-> "SetMetadata", ID |-> b, Metadata |-> 1] : b \in BlobIDs}
ExtendBlobCmds ==
  {[kind |-> "ExtendBlob", ID |-> b, FirstTractKey |-> f, Hosts |-> hs] :
     b \in BlobIDs, f \in TractKeys, hs \in HostLists}
ChangeTractCmds ==
  {[kind |-> "ChangeTract", ID |-> tid, NewHosts |-> h, NewVersion |-> v] :
     tid \in TractIDs, h \in HostVectors, v \in {2, 3}}
UpdateTimesCmds ==
  {[kind |-> "UpdateTimes", Updates |-> <<[Blob |-> b, MTime |-> m, ATime |-> 0]>>] :
     b \in BlobIDs, m \in Times}
AllocateRSChunkIDsCmds == {[kind |-> "AllocateRSChunkIDs", N |-> n] : n \in {1, 2}}
CommitRSChunkCmds ==
  {[kind |-> "CommitRSChunk", ID |-> c, Storage |-> StorageClass_RS_6_3,
    Hosts |-> <<1, MaxRepl>>, Data |-> d] : c \in RSChunkIDs, d \in RSData}
UpdateRSHostsCmds ==
  {[kind |-> "UpdateRSHosts", ID |-> c, Hosts |-> <<MaxRepl, 1>>] : c \in RSChunkIDs}
UpdateStorageClassCmds ==
  {[kind |-> "UpdateStorageClass", ID |-> b, Storage |-> StorageClass_RS_6_3] : b \in BlobIDs}
CreateTSIDCacheCmds == {[kind |-> "CreateTSIDCache"]}
ChecksumCmds == {[kind |-> "Checksum", Start |-> ZeroBlobID, N |-> n] : n \in {1, 2}}
VerifyChecksumCmds ==
  {[kind |-> "VerifyChecksum", Index |-> i, Checksum |-> c] :
     i \in 0..MaxIndex, c \in 0..(ChecksumMod - 1)}
UnknownCmds == {[kind |-> "Unknown"]}
\* The payload of a replayed entry is never decoded: a few stand for all.
ReplayedCmds == AddPartitionCmds \cup CreateBlobCmds \cup SetReadOnlyModeCmds \cup ChecksumCmds
NotDecoded == [kind |-> "not decoded"]

(***************************************************************************)
(* StateHandler: the database, the checksum cache, and (for the            *)
(* properties) the entry last handed to Apply with what became of it.      *)
(***************************************************************************)
VARIABLES state, checksum, checksumIndex, last, halted
\* The raft log two replicas apply, the replica that is not running (the
\* variables above are the replica that is), and every result a replica has
\* returned for the Checksum command at a log index.
VARIABLES log, peer, answers
\* What the commands applied so far have handed out (for the properties).
VARIABLES history
\* The transactions open on the database outside Apply: the write
\* transaction, if one is open, and a read-only transaction, if one is open.
VARIABLES txns
\* The StateHandler's fields outside the database: the readers-writer lock,
\* the leadership and membership fields it guards, where each goroutine that
\* uses them stands, and the calls made to the leadership hook.
VARIABLES handler
\* What a single StateHandler fed by ApplyNew and ApplyReplayed leaves alone.
aux == <<log, peer, answers, history, txns, handler>>
vars ==
  <<state, checksum, checksumIndex, last, halted, log, peer, answers, history, txns,
    handler>>

\* A StateHandler that has applied nothing, over an empty database.
FreshReplica ==
  [state |-> EmptyState, checksum |-> 0, checksumIndex |-> 0,
   last |-> [Index |-> 0, Cmd |-> NotDecoded, outcome |-> "none", res |-> Nil],
   halted |-> FALSE]

Init ==
  /\ state = EmptyState
  /\ checksum = 0
  /\ checksumIndex = 0
  /\ last = [Index |-> 0, Cmd |-> NotDecoded, outcome |-> "none", res |-> Nil]
  /\ halted = FALSE
  /\ log = <<>>
  /\ peer = FreshReplica
  /\ answers = <<>>
  /\ history = [allocated |-> {}, written |-> {}, granted |-> {}, created |-> {},
                purged |-> {}]
  /\ txns = [writer |-> Nil, reader |-> Nil]
  /\ handler =
       [lock |-> [writer |-> "none", readers |-> 0],
        isLeader |-> FALSE, term |-> 0, leaderID |-> "", members |-> <<>>,
        \* the notification (its number) each leadership field was stored by
        from |-> [isLeader |-> 0, term |-> 0, leaderID |-> 0],
        leadership |-> [pc |-> "idle", val |-> FALSE, term |-> 0, leader |-> "", n |-> 0],
        membership |-> [pc |-> "idle", members |-> <<>>],
        reader |-> [pc |-> "idle", isLeader |-> FALSE, term |-> 0, leaderID |-> "",
                    from |-> [isLeader |-> 0, term |-> 0, leaderID |-> 0]],
        calls |-> <<>>, hooks |-> <<>>]

\* No replay test: every entry handed to Apply is applied.
AlreadyApplied_Never(entIndex, txnIndex) == FALSE

\* A replay test that applies the latest entry again.
AlreadyApplied_Strict(entIndex, txnIndex) == entIndex < txnIndex

\* The replay test of Apply: the entry is already reflected in the database.
AlreadyApplied(entIndex, txnIndex) == entIndex <= txnIndex

\* verifyChecksum without the comparison of the indices.
verifyChecksumFatal_IgnoreIndex(c, cachedIndex, cachedChecksum) ==
  cachedChecksum # c.Checksum

\* verifyChecksum: fatal when the indices match and the checksums do not.
verifyChecksumFatal(c, cachedIndex, cachedChecksum) ==
  IF cachedIndex # c.Index THEN FALSE
  ELSE IF cachedChecksum # c.Checksum THEN TRUE
  ELSE FALSE

\* The dispatch of Apply on the command's type.
Dispatch(cmd, txn) ==
  CASE cmd.kind = "SetRegistration" -> SetRegistrationApply(cmd, txn)
    [] cmd.kind = "AddPartition" -> AddPartitionApply(cmd, txn)
    [] cmd.kind = "SyncPartitions" -> SyncPartitionsApply(cmd, txn)
    [] cmd.kind = "CreateBlob" -> CreateBlobApply(cmd, txn)
    [] cmd.kind = "DeleteBlob" -> DeleteBlobApply(cmd, txn)
    [] cmd.kind = "FinishDelete" -> FinishDeleteApply(cmd, txn)
    [] cmd.kind = "UndeleteBlob" -> UndeleteBlobApply(cmd, txn)
    [] cmd.kind = "SetMetadata" -> SetMetadataApply(cmd, txn)
    [] cmd.kind = "ExtendBlob" -> ExtendBlobApply(cmd, txn)
    [] cmd.kind = "ChangeTract" -> ChangeTractApply(cmd, txn)
    [] cmd.kind = "UpdateTimes" -> UpdateTimesApply(cmd, txn)
    [] cmd.kind = "AllocateRSChunkIDs" -> AllocateRSChunkIDsApply(cmd, txn)
    [] cmd.kind = "CommitRSChunk" -> CommitRSChunkApply(cmd, txn)
    [] cmd.kind = "UpdateRSHosts" -> UpdateRSHostsApply(cmd, txn)
    [] cmd.kind = "UpdateStorageClass" -> UpdateStorageClassApply(cmd, txn)
    [] cmd.kind = "CreateTSIDCache" -> CreateTSIDCacheApply(cmd, txn)

\* The command that switches the read-only mode is handled before the gate.
IsSetReadOnlyMode(cmd) == cmd.kind = "SetReadOnlyMode"

\* ApplyWrite with the read-only gate ahead of the read-only mode switch.
ApplyWrite_GateFirst(cmd, txn) ==
  IF GetReadOnlyMode(txn)
  THEN [txn |-> txn, res |-> [Err |-> ErrReadOnlyMode]]
  ELSE IF IsSetReadOnlyMode(cmd)
  THEN [txn |-> SetReadOnlyMode(txn, cmd.ReadOnly), res |-> [Err |-> NoError]]
  ELSE Dispatch(cmd, txn)

\* The part of Apply that runs in the write transaction: the read-only mode
\* switch first, then the read-only gate, then the handler.
ApplyWrite(cmd, txn) ==
  IF IsSetReadOnlyMode(cmd)
  THEN [txn |-> SetReadOnlyMode(txn, cmd.ReadOnly), res |-> [Err |-> NoError]]
  ELSE IF GetReadOnlyMode(txn)
  THEN [txn |-> txn, res |-> [Err |-> ErrReadOnlyMode]]
  ELSE Dispatch(cmd, txn)

\* The commands Apply serves from the read-only transaction.
IsChecksum(cmd) == cmd.kind = "Checksum"
IsVerifyChecksum(cmd) == cmd.kind = "VerifyChecksum"

ErrOf(res) == IF "Err" \in DOMAIN res THEN res.Err ELSE "none"

\* A write transaction opened at the index after the stored one.
WriteTxnApply_NextIndex(k, cmd, st) ==
  LET r == ApplyWrite(cmd, st)
  IN [state |-> Commit(r.txn, GetIndex(st) + 1), res |-> r.res]

\* A write transaction that is dropped when the command is rejected.
WriteTxnApply_CommitOnSuccess(k, cmd, st) ==
  LET r == ApplyWrite(cmd, st)
  IN [state |-> IF ErrOf(r.res) \in {NoError, "none"} THEN Commit(r.txn, k) ELSE st,
      res |-> r.res]

\* The write transaction of Apply: opened at the entry's index, handed to
\* ApplyWrite, and committed by the deferred txn.Commit() on return and on a
\* panic alike.
WriteTxnApply(k, cmd, st) ==
  LET r == ApplyWrite(cmd, st)
  IN [state |-> Commit(r.txn, k), res |-> r.res]

Record(k, cmd, outcome, res) ==
  last' = [Index |-> k, Cmd |-> cmd, outcome |-> outcome, res |-> res]

\* Apply of one committed log entry {Index: k, Cmd: cmd}.
Apply(k, cmd) ==
  /\ ~halted
  /\ LET txnIndex == GetIndex(state)
     IN IF AlreadyApplied(k, txnIndex)
        THEN \* recovery: the entry is skipped before its payload is decoded
             /\ Record(k, NotDecoded, "skipped", Nil)
             /\ UNCHANGED <<state, checksum, checksumIndex, halted>>
        ELSE IF IsChecksum(cmd)
        THEN \* checksumRequest, on the read-only transaction
             LET r == Checksum(state, cmd.Start, cmd.N)
             IN /\ checksum' = r.cksum
                /\ checksumIndex' = k
                /\ Record(k, cmd, "returned",
                          [Next |-> r.next, Checksum |-> r.cksum, Index |-> k])
                /\ UNCHANGED <<state, halted>>
        ELSE IF IsVerifyChecksum(cmd)
        THEN LET fatal == verifyChecksumFatal(cmd, checksumIndex, checksum)
             IN /\ halted' = fatal
                /\ Record(k, cmd, IF fatal THEN "fatal" ELSE "returned", Nil)
                /\ UNCHANGED <<state, checksum, checksumIndex>>
        ELSE IF cmd.kind = "Unknown"
        THEN \* log.Fatalf exits the process: the deferred Commit never runs
             /\ halted' = TRUE
             /\ Record(k, cmd, "fatal", Nil)
             /\ UNCHANGED <<state, checksum, checksumIndex>>
        ELSE LET r == WriteTxnApply(k, cmd, state)
             IN /\ state' = r.state
                /\ halted' = IsPanic(r.res)
                /\ Record(k, cmd, IF IsPanic(r.res) THEN "panic" ELSE "returned", r.res)
                /\ UNCHANGED <<checksum, checksumIndex>>

\* The log hands Apply a new entry with one of the commands `cmds`.
ApplyNew(ks, cmds) ==
  /\ \E k \in ks, c \in cmds : k > GetIndex(state) /\ Apply(k, c)
  /\ UNCHANGED aux

\* After a restart the log hands Apply an entry the database already reflects.
ApplyReplayed(ks) ==
  /\ \E k \in ks, c \in ReplayedCmds : k <= GetIndex(state) /\ Apply(k, c)
  /\ UNCHANGED aux

Next ==
  \/ ApplyNew(Indices, SetReadOnlyModeCmds)
  \/ ApplyNew(Indices, SetRegistrationCmds)
  \/ ApplyNew(Indices, AddPartitionCmds)
  \/ ApplyNew(Indices, SyncPartitionsCmds)
  \/ ApplyNew(Indices, CreateBlobCmds)
  \/ ApplyNew(Indices, DeleteBlobCmds)
  \/ ApplyNew(Indices, UndeleteBlobCmds)
  \/ ApplyNew(Indices, FinishDeleteCmds)
  \/ ApplyNew(Indices, SetMetadataCmds)
  \/ ApplyNew(Indices, ExtendBlobCmds)
  \/ ApplyNew(Indices, ChangeTractCmds)
  \/ ApplyNew(Indices, UpdateTimesCmds)
  \/ ApplyNew(Indices, AllocateRSChunkIDsCmds)
  \/ ApplyNew(Indices, CommitRSChunkCmds)
  \/ ApplyNew(Indices, UpdateRSHostsCmds)
  \/ ApplyNew(Indices, UpdateStorageClassCmds)
  \/ ApplyNew(Indices, CreateTSIDCacheCmds)
  \/ ApplyNew(Indices, ChecksumCmds)
  \/ ApplyNew(Indices, VerifyChecksumCmds)
  \/ ApplyNew(Indices, UnknownCmds)
  \/ ApplyReplayed(Indices)

Spec == Init /\ [][Next]_vars

\* The blob path alone (partitions, blobs, tracts), followed further.
BlobNext ==
  \/ ApplyNew(BlobIndices, AddPartitionCmds)
  \/ ApplyNew(BlobIndices, SyncPartitionsCmds)
  \/ ApplyNew(BlobIndices, CreateBlobCmds)
  \/ ApplyNew(BlobIndices, DeleteBlobCmds)
  \/ ApplyNew(BlobIndices, UndeleteBlobCmds)
  \/ ApplyNew(BlobIndices, FinishDeleteCmds)
  \/ ApplyNew(BlobIndices, ExtendBlobCmds)
  \/ ApplyNew(BlobIndices, ChangeTractCmds)
  \/ ApplyReplayed(BlobIndices)

BlobSpec == Init /\ [][BlobNext]_vars

(***************************************************************************)
(* A single StateHandler with a record of what its commands handed out.    *)
(***************************************************************************)
\* The RS chunk keys [ID, ID + N) of an allocation, with their partition.
AllocatedKeys(cmd, res) ==
  {<<res.ID.Partition, key>> : key \in res.ID.ID..(res.ID.ID + cmd.N - 1)}

\* The tractserver ids a command writes into a blob or an RS chunk when it
\* succeeds.
HostsWritten(cmd) ==
  CASE cmd.kind = "ExtendBlob" -> UNION {Range(cmd.Hosts[i]) : i \in DOMAIN cmd.Hosts}
    [] cmd.kind = "ChangeTract" -> Range(cmd.NewHosts)
    [] cmd.kind \in {"CommitRSChunk", "UpdateRSHosts"} -> Range(cmd.Hosts)
    [] OTHER -> {}

\* The (tract, version) a ChangeTract grants when it succeeds.
VersionsGranted(cmd) ==
  IF cmd.kind = "ChangeTract" THEN {<<cmd.ID, cmd.NewVersion>>} ELSE {}

\* The history after the entry `l` (an entry with what became of it).
Note(h, l) ==
  IF l.outcome = "returned" /\ ErrOf(l.res) = NoError
  THEN CASE l.Cmd.kind = "AllocateRSChunkIDs" ->
                 [h EXCEPT !.allocated = @ \cup AllocatedKeys(l.Cmd, l.res)]
         [] l.Cmd.kind = "CreateBlob" -> [h EXCEPT !.created = @ \cup {l.res.ID}]
         [] l.Cmd.kind = "FinishDelete" ->
                 \* the blobs CreateBlob had returned that are now removed
                 [h EXCEPT !.purged = @ \cup (Range(l.Cmd.Blobs) \cap h.created)]
         [] OTHER -> [h EXCEPT !.written = @ \cup HostsWritten(l.Cmd),
                               !.granted = @ \cup VersionsGranted(l.Cmd)]
  ELSE h

\* The log hands Apply a new entry with one of the commands `cmds`, and the
\* history takes note of the result.
Tracked(ks, cmds) ==
  /\ \E k \in ks, c \in cmds : k > GetIndex(state) /\ Apply(k, c)
  /\ history' = Note(history, last')
  /\ UNCHANGED <<log, peer, answers, txns, handler>>

\* After a restart the log hands Apply an entry the database already reflects.
TrackedReplayed(ks, cmds) ==
  /\ \E k \in ks, c \in cmds : k <= GetIndex(state) /\ Apply(k, c)
  /\ UNCHANGED aux

\* Highest raft log index handed to Apply on the RS chunk id path.
AllocMaxIndex == 6
\* Every count an allocation can be served with, and one it cannot.
AllocCmds == {[kind |-> "AllocateRSChunkIDs", N |-> n] : n \in 1..(MaxRSChunkKey + 1)}

AllocNext ==
  \/ Tracked(1..AllocMaxIndex, AddPartitionCmds)
  \/ Tracked(1..AllocMaxIndex, AllocCmds)
  \/ TrackedReplayed(1..AllocMaxIndex, AllocCmds)

AllocSpec == Init /\ [][AllocNext]_vars

\* Highest raft log index handed to Apply on the RS chunk path.
PurgeMaxIndex == 4
\* Data pieces that pack tracts of two blobs; one blob has tracts in two
\* pieces, one piece has tracts of both blobs.
PurgeCommitCmds ==
  LET b1 == BlobIDFromParts(1, 1)
      b2 == BlobIDFromParts(1, 2)
      data ==
        {<<<<EncodedTract(TractIDFromParts(b1, 0)), EncodedTract(TractIDFromParts(b2, 0)),
             EncodedTract(TractIDFromParts(b1, 1))>>,
           <<EncodedTract(TractIDFromParts(b1, 0))>>>>,
         <<<<>>, <<EncodedTract(TractIDFromParts(b2, 1))>>>>}
  IN {[kind |-> "CommitRSChunk", ID |-> c, Storage |-> StorageClass_RS_6_3,
       Hosts |-> <<1, MaxRepl>>, Data |-> d] :
         c \in {RSChunkID(1, 1), RSChunkID(1, 2)}, d \in data}
PurgeFinishCmds ==
  LET b1 == BlobIDFromParts(1, 1)
      b2 == BlobIDFromParts(1, 2)
  IN {[kind |-> "FinishDelete", Blobs |-> bs] :
        bs \in {<<>>, <<b1>>, <<b2>>, <<b2, b1>>, <<BlobIDFromParts(MaxPartition, 1)>>}}

PurgeNext ==
  \/ Tracked(1..PurgeMaxIndex, AddPartitionCmds)
  \/ Tracked(1..PurgeMaxIndex, CreateBlobCmds)
  \/ Tracked(1..PurgeMaxIndex, PurgeCommitCmds)
  \/ Tracked(1..PurgeMaxIndex, UpdateRSHostsCmds)
  \/ Tracked(1..PurgeMaxIndex, PurgeFinishCmds)
  \/ TrackedReplayed(1..PurgeMaxIndex, PurgeFinishCmds)

PurgeSpec == Init /\ [][PurgeNext]_vars

\* Highest raft log index handed to Apply on the known-TSID path.
CacheMaxIndex == 6
\* One blob with one replica, whose single tract moves between tractservers,
\* and one RS chunk whose host moves likewise.
CacheBlob == BlobIDFromParts(1, 1)
CacheHosts == {<<1>>, <<MaxRepl>>}
CacheCreateCmds ==
  {[kind |-> "CreateBlob", Repl |-> 1, Hint |-> 0, InitialTime |-> 1, Expires |-> 0]}
CacheExtendCmds ==
  {[kind |-> "ExtendBlob", ID |-> CacheBlob, FirstTractKey |-> 0, Hosts |-> <<h>>] :
     h \in CacheHosts}
CacheChangeCmds ==
  {[kind |-> "ChangeTract", ID |-> TractIDFromParts(CacheBlob, 0), NewHosts |-> h,
    NewVersion |-> v] : h \in CacheHosts, v \in {2, 3}}
CacheFinishCmds == {[kind |-> "FinishDelete", Blobs |-> <<CacheBlob>>]}
CacheCommitCmds ==
  {[kind |-> "CommitRSChunk", ID |-> RSChunkID(1, 1), Storage |-> StorageClass_RS_6_3,
    Hosts |-> h, Data |-> <<<<>>>>] : h \in CacheHosts}
CacheUpdateCmds ==
  {[kind |-> "UpdateRSHosts", ID |-> RSChunkID(1, 1), Hosts |-> h] : h \in CacheHosts}

CacheNext ==
  \/ Tracked(1..CacheMaxIndex, AddPartitionCmds)
  \/ Tracked(1..CacheMaxIndex, CacheCreateCmds)
  \/ Tracked(1..CacheMaxIndex, CacheExtendCmds)
  \/ Tracked(1..CacheMaxIndex, CacheChangeCmds)
  \/ Tracked(1..CacheMaxIndex, CacheFinishCmds)
  \/ Tracked(1..CacheMaxIndex, CacheCommitCmds)
  \/ Tracked(1..CacheMaxIndex, CacheUpdateCmds)
  \/ Tracked(1..CacheMaxIndex, CreateTSIDCacheCmds)
  \/ TrackedReplayed(1..CacheMaxIndex, CreateTSIDCacheCmds)

CacheSpec == Init /\ [][CacheNext]_vars

\* Highest raft log index handed to Apply on the mtime/atime path.
TimesMaxIndex == 4
\* Updates for the first blob of partition 1 and for a blob that is never
\* created, with every time including 0; batches of up to two updates, in
\* both orders.
TimesCmds ==
  LET blobs == {BlobIDFromParts(1, 1), BlobIDFromParts(1, MaxBlobKey)}
      updates == {[Blob |-> b, MTime |-> m, ATime |-> a] :
                    b \in blobs, m \in 0..MaxTime, a \in 0..MaxTime}
      batches == {<<>>} \cup {<<u>> : u \in updates}
                   \cup {<<u, v>> : u \in updates, v \in updates}
  IN {[kind |-> "UpdateTimes", Updates |-> us] : us \in batches}
TimesDeleteCmds ==
  {[kind |-> "DeleteBlob", ID |-> BlobIDFromParts(1, 1), When |-> MaxTime]}

TimesNext ==
  \/ ApplyNew(1..TimesMaxIndex, AddPartitionCmds)
  \/ ApplyNew(1..TimesMaxIndex, CreateBlobCmds)
  \/ ApplyNew(1..TimesMaxIndex, TimesDeleteCmds)
  \/ ApplyNew(1..TimesMaxIndex, TimesCmds)
  \/ ApplyReplayed(1..TimesMaxIndex)

TimesSpec == Init /\ [][TimesNext]_vars

\* Highest raft log index handed to Apply on the tract version path.
TractMaxIndex == 8
\* Changes of the first tract of one blob, asking for every version a
\* 32-bit field can hold.
TractChangeCmds ==
  {[kind |-> "ChangeTract", ID |-> TractIDFromParts(CacheBlob, 0), NewHosts |-> <<1>>,
    NewVersion |-> v] : v \in 0..MaxVersion}

TractNext ==
  \/ Tracked(1..TractMaxIndex, AddPartitionCmds)
  \/ Tracked(1..TractMaxIndex, CacheCreateCmds)
  \/ Tracked(1..TractMaxIndex, CacheExtendCmds)
  \/ Tracked(1..TractMaxIndex, TractChangeCmds)
  \/ TrackedReplayed(1..TractMaxIndex, TractChangeCmds)

TractSpec == Init /\ [][TractNext]_vars

\* Highest raft log index handed to Apply on the blob id path.
IdMaxIndex == 6
\* Every command that writes a blob, on the ids of partition 1, with the
\* partitions added one by one or by SyncPartitions.
IdWriteCmds ==
  LET blobs == {BlobIDFromParts(1, k) : k \in BlobKeys}
  IN {c \in DeleteBlobCmds \cup UndeleteBlobCmds \cup SetMetadataCmds
               \cup UpdateStorageClassCmds : c.ID \in blobs}
       \cup UpdateTimesCmds
       \cup {c \in ExtendBlobCmds :
                c.ID \in blobs /\ c.FirstTractKey = 0 /\ Len(c.Hosts) = 1}

IdNext ==
  \/ Tracked(1..IdMaxIndex, AddPartitionCmds)
  \/ Tracked(1..IdMaxIndex, SyncPartitionsCmds)
  \/ Tracked(1..IdMaxIndex, CacheCreateCmds)
  \/ Tracked(1..IdMaxIndex, FinishDeleteCmds)
  \/ Tracked(1..IdMaxIndex, IdWriteCmds)
  \/ TrackedReplayed(1..IdMaxIndex, CacheCreateCmds)

IdSpec == Init /\ [][IdNext]_vars

(***************************************************************************)
(* The notifications of the consensus layer: OnLeadershipChange and        *)
(* OnMembershipChange run on the callback goroutine(s), statement by       *)
(* statement, while a server thread reads the leadership fields under the   *)
(* read lock and Apply goes on.                                            *)
(***************************************************************************)
\* How many leadership notifications arrive, and the terms they carry.
MaxNotifications == 2
MaxTerm == 2
\* Highest raft log index handed to Apply while notifications arrive.
NotifyMaxIndex == 1

\* A write lock that is taken whatever the readers hold.
CanLock_Shared(lock) == lock.writer = "none"

\* h.lock.Lock() returns when no writer and no reader holds the lock.
CanLock(lock) == lock.writer = "none" /\ lock.readers = 0

\* One statement of OnLeadershipChange(val, term, leader).
OnLeadershipChange ==
  LET c == handler.leadership
  IN /\ \/ /\ c.pc = "idle"
           /\ Len(handler.calls) < MaxNotifications
           /\ \E v \in BOOLEAN, t \in 1..MaxTerm, l \in {"a", "b"} :
                handler' = [handler EXCEPT
                  !.leadership = [pc |-> "Lock", val |-> v, term |-> t, leader |-> l,
                                  n |-> Len(handler.calls) + 1],
                  !.calls = Append(@, v)]
        \/ /\ c.pc = "Lock"
           /\ CanLock(handler.lock)
           /\ handler' = [handler EXCEPT !.lock.writer = "leadership",
                                          !.leadership.pc = "isLeader"]
        \/ /\ c.pc = "isLeader"
           /\ handler' = [handler EXCEPT !.isLeader = c.val, !.from.isLeader = c.n,
                                          !.leadership.pc = "term"]
        \/ /\ c.pc = "term"
           /\ handler' = [handler EXCEPT !.term = c.term, !.from.term = c.n,
                                          !.leadership.pc = "leaderID"]
        \/ /\ c.pc = "leaderID"
           /\ handler' = [handler EXCEPT !.leaderID = c.leader, !.from.leaderID = c.n,
                                          !.leadership.pc = "Unlock"]
        \/ /\ c.pc = "Unlock"
           /\ handler' = [handler EXCEPT !.lock.writer = "none",
                                          !.leadership.pc = "hook"]
        \/ /\ c.pc = "hook"
           \* h.config.OnLeadershipChange(val)
           /\ handler' = [handler EXCEPT !.hooks = Append(@, c.val),
                                          !.leadership.pc = "idle"]
     /\ UNCHANGED <<state, checksum, checksumIndex, last, halted, log, peer, answers,
                    history, txns>>

\* One statement of OnMembershipChange(membership); the unlock is deferred.
OnMembershipChange ==
  LET c == handler.membership
  IN /\ \/ /\ c.pc = "idle"
           /\ \E m \in {<<"a">>, <<"a", "b">>} :
                /\ m # handler.members
                /\ handler' = [handler EXCEPT !.membership = [pc |-> "Lock", members |-> m]]
        \/ /\ c.pc = "Lock"
           /\ CanLock(handler.lock)
           /\ handler' = [handler EXCEPT !.lock.writer = "membership",
                                          !.membership.pc = "members"]
        \/ /\ c.pc = "members"
           /\ handler' = [handler EXCEPT !.members = c.members,
                                          !.membership.pc = "Unlock"]
        \/ /\ c.pc = "Unlock"
           /\ handler' = [handler EXCEPT !.lock.writer = "none",
                                          !.membership.pc = "idle"]
     /\ UNCHANGED <<state, checksum, checksumIndex, last, halted, log, peer, answers,
                    history, txns>>

\* A server thread reads the three leadership fields, one by one, holding
\* the read lock for the duration.
ReadLeadership ==
  LET r == handler.reader
  IN /\ \/ /\ r.pc = "idle"
           /\ handler.lock.writer = "none"
           /\ handler' = [handler EXCEPT !.lock.readers = @ + 1,
                                          !.reader.pc = "isLeader"]
        \/ /\ r.pc = "isLeader"
           /\ handler' = [handler EXCEPT !.reader.isLeader = handler.isLeader,
                                          !.reader.from.isLeader = handler.from.isLeader,
                                          !.reader.pc = "term"]
        \/ /\ r.pc = "term"
           /\ handler' = [handler EXCEPT !.reader.term = handler.term,
                                          !.reader.from.term = handler.from.term,
                                          !.reader.pc = "leaderID"]
        \/ /\ r.pc = "leaderID"
           /\ handler' = [handler EXCEPT !.reader.leaderID = handler.leaderID,
                                          !.reader.from.leaderID = handler.from.leaderID,
                                          !.reader.pc = "RUnlock"]
        \/ /\ r.pc = "RUnlock"
           /\ handler' = [handler EXCEPT !.lock.readers = @ - 1, !.reader.pc = "idle"]
     /\ UNCHANGED <<state, checksum, checksumIndex, last, halted, log, peer, answers,
                    history, txns>>

NotifyNext ==
  \/ OnLeadershipChange
  \/ OnMembershipChange
  \/ ReadLeadership
  \/ ApplyNew(1..NotifyMaxIndex, AddPartitionCmds)

NotifySpec == Init /\ [][NotifyNext]_vars

(***************************************************************************)
(* The transactions of the state layer taken apart: a write transaction    *)
(* that is opened, written to and committed in separate steps, and a       *)
(* read-only transaction open at the same time.  (Modelled from the        *)
(* specification, sections 4.1 and 5, and the tests of the state package.) *)
(***************************************************************************)
\* Highest index a write transaction is opened at.
TxnMaxIndex == 3

\* A read-only transaction that reads the open writer's working copy.
ReadOnlyTxn_Dirty(db, writer) == IF writer = Nil THEN db ELSE writer.txn

\* State.ReadOnlyTxn: a snapshot of what is committed when it starts.
ReadOnlyTxn(db, writer) == db

\* State.WriteTxn(index): the working copy starts from what is committed.
WriteTxn(db, index) == [txn |-> db, index |-> index]

\* The writes of a transaction: partitions and blobs are put, blobs deleted.
TxnWrites(t) ==
  LET blob == [Repl |-> MaxRepl, Mtime |-> 0, Atime |-> 0, Hint |-> 0, Expires |-> 0,
               Deleted |-> 0, Metadata |-> 0, Storage |-> StorageClass_REPLICATED,
               Tracts |-> <<>>]
  IN {PutPartition(t, [Id |-> p, NextBlobKey |-> 1, NextRsChunkKey |-> 0]) :
        p \in PartitionIDs}
       \cup {PutBlob(t, BlobIDFromParts(p, 1), blob) : p \in PartitionIDs}
       \cup {DeleteBlob(t, BlobIDFromParts(1, 1), MaxTime).txn}

OpenWrite ==
  /\ txns.writer = Nil
  /\ \E k \in 1..TxnMaxIndex :
       /\ k > GetIndex(state)
       /\ txns' = [txns EXCEPT !.writer = WriteTxn(state, k)]
  /\ UNCHANGED <<state, checksum, checksumIndex, last, halted, log, peer, answers, history, handler>>

Write ==
  /\ txns.writer # Nil
  /\ \E t \in TxnWrites(txns.writer.txn) : txns' = [txns EXCEPT !.writer.txn = t]
  /\ UNCHANGED <<state, checksum, checksumIndex, last, halted, log, peer, answers, history, handler>>

CommitWrite ==
  /\ txns.writer # Nil
  /\ state' = Commit(txns.writer.txn, txns.writer.index)
  /\ txns' = [txns EXCEPT !.writer = Nil]
  /\ UNCHANGED <<checksum, checksumIndex, last, halted, log, peer, answers, history, handler>>

\* A read-only transaction starts; `committed` remembers the database and
\* `writing` whether a write transaction was open at that moment.
OpenRead ==
  /\ txns.reader = Nil
  /\ txns' = [txns EXCEPT !.reader = [view |-> ReadOnlyTxn(state, txns.writer),
                                      committed |-> state,
                                      writing |-> txns.writer # Nil]]
  /\ UNCHANGED <<state, checksum, checksumIndex, last, halted, log, peer, answers, history, handler>>

\* Commit of the read-only transaction releases the snapshot.
CloseRead ==
  /\ txns.reader # Nil
  /\ txns' = [txns EXCEPT !.reader = Nil]
  /\ UNCHANGED <<state, checksum, checksumIndex, last, halted, log, peer, answers, history, handler>>

TxnNext ==
  \/ OpenWrite
  \/ Write
  \/ CommitWrite
  \/ OpenRead
  \/ CloseRead

TxnSpec == Init /\ [][TxnNext]_vars

(***************************************************************************)
(* Two replicas of the state machine on one raft log.  One replica runs at *)
(* a time (raft calls Apply serially within a replica and the replicas     *)
(* share nothing but the log); Switch changes which.  A replica applies    *)
(* the log in order; after a crash it starts again with an empty checksum  *)
(* cache and is handed the log once more from an entry its database may    *)
(* already reflect.                                                        *)
(***************************************************************************)
\* Highest raft log index when two replicas apply the log.
ReplicaMaxIndex == 4

ReplicaCmds ==
  {[kind |-> "AddPartition", ID |-> 1],
   [kind |-> "CreateBlob", Repl |-> 1, Hint |-> 0, InitialTime |-> 1, Expires |-> 0],
   [kind |-> "DeleteBlob", ID |-> BlobIDFromParts(1, 1), When |-> MaxTime],
   [kind |-> "Checksum", Start |-> ZeroBlobID, N |-> 2]}

\* A command is proposed; the leader also sends its followers the result of
\* a Checksum it has executed, as a VerifyChecksum.
Propose ==
  /\ Len(log) < ReplicaMaxIndex
  /\ LET verify ==
           UNION {{[kind |-> "VerifyChecksum", Index |-> k, Checksum |-> r.Checksum] :
                     r \in answers[k]} : k \in DOMAIN answers}
     IN \E c \in ReplicaCmds \cup verify : log' = Append(log, c)
  /\ UNCHANGED <<state, checksum, checksumIndex, last, halted, peer, answers, history, txns, handler>>

\* The running replica is handed the next entry of the log.
ReplicaApply ==
  /\ last.Index < Len(log)
  /\ Apply(last.Index + 1, log[last.Index + 1])
  /\ answers' =
       IF last'.outcome = "returned" /\ IsChecksum(last'.Cmd)
       THEN LET k == last'.Index
            IN (k :> ((IF k \in DOMAIN answers THEN answers[k] ELSE {})
                      \cup {last'.res}))
               @@ answers
       ELSE answers
  /\ UNCHANGED <<log, peer, history, txns, handler>>

\* The running replica crashes and restarts: the database is what was
\* committed, the checksum cache is gone, and raft hands it the log again
\* from an entry at or before the applied index.
Crash ==
  /\ last.Index > 0
  /\ \E j \in 0..GetIndex(state) :
       last' = [Index |-> j, Cmd |-> NotDecoded, outcome |-> "restarted", res |-> Nil]
  /\ checksum' = 0
  /\ checksumIndex' = 0
  /\ halted' = FALSE
  /\ UNCHANGED <<state, log, peer, answers, history, txns, handler>>

Switch ==
  /\ peer' = [state |-> state, checksum |-> checksum, checksumIndex |-> checksumIndex,
              last |-> last, halted |-> halted]
  /\ state' = peer.state
  /\ checksum' = peer.checksum
  /\ checksumIndex' = peer.checksumIndex
  /\ last' = peer.last
  /\ halted' = peer.halted
  /\ UNCHANGED <<log, answers, history, txns, handler>>

ReplicaNext ==
  \/ Propose
  \/ ReplicaApply
  \/ Crash
  \/ Switch

ReplicaSpec == Init /\ [][ReplicaNext]_vars

(***************************************************************************)
(* Properties.  A step of the specification is one Apply; `last'` is the   *)
(* entry it was given and what it returned, `state` the database before    *)
(* and `state'` the database after.                                        *)
(***************************************************************************)
\* The entry of this step is new to the database (it is not a replay).
StepIsNew == last'.Index > GetIndex(state)
StepKind == last'.Cmd.kind
\* The step ran the command's handler: new entry, not in read-only mode.
StepHandled(kind) == StepKind = kind /\ StepIsNew /\ ~GetReadOnlyMode(state)
ReadOnlyTxnKinds == {"Checksum", "VerifyChecksum"}
WriteTxnKinds ==
  {"SetReadOnlyMode", "SetRegistration", "AddPartition", "SyncPartitions",
   "CreateBlob", "DeleteBlob", "FinishDelete", "UndeleteBlob", "SetMetadata",
   "ExtendBlob", "ChangeTract", "UpdateTimes", "AllocateRSChunkIDs",
   "CommitRSChunk", "UpdateRSHosts", "UpdateStorageClass", "CreateTSIDCache"}

\* C1 (replay safety): an Apply of an entry whose index is at most the stored
\* applied index changes nothing in the database (no bucket, not the applied
\* index, not the read-only flag); so an entry applied again right after its
\* first application, with the same payload, leaves the state as the first
\* application left it.
ReplaySafety ==
  [][/\ last'.Index <= GetIndex(state) => state' = state
     /\ (last'.Index = last.Index /\ last'.Cmd = last.Cmd
         /\ last.outcome \in {"returned", "skipped"}) => state' = state]_vars

\* C1 witness: the latest entry was replayed when a blob existed.
ReplaySafetyWitness ==
  /\ last.outcome = "skipped"
  /\ last.Index = GetIndex(state)
  /\ DOMAIN state.blobs # {}

\* C2 as stated: whatever the command kind, Checksum and VerifyChecksum
\* included, the applied index is the entry's index once Apply has returned.
MonotoneIndexEveryKind ==
  [][(StepIsNew /\ last'.outcome = "returned") => GetIndex(state') = last'.Index]_vars

\* C2 (monotone index), amended: for a new entry with a command that runs in
\* the write transaction (every kind but Checksum and VerifyChecksum), also
\* one a handler or the read-only gate rejects, the applied index is exactly
\* the entry's index after Apply; Checksum and VerifyChecksum leave the
\* applied index as it was; the applied index never decreases.
MonotoneIndex ==
  [][/\ GetIndex(state') >= GetIndex(state)
     /\ (StepIsNew /\ StepKind \in WriteTxnKinds) => GetIndex(state') = last'.Index
     /\ (StepIsNew /\ StepKind \in ReadOnlyTxnKinds) => GetIndex(state') = GetIndex(state)]_vars

\* C2 witness: a rejected command has moved the applied index to its entry's.
MonotoneIndexWitness ==
  /\ last.outcome = "returned"
  /\ ErrOf(last.res) = ErrAlreadyExists
  /\ last.Index = MaxIndex
  /\ GetIndex(state) = MaxIndex

\* C3 (read-only gate): in read-only mode a new entry with any write command
\* but SetReadOnlyMode returns ReadOnlyMode and changes nothing but the
\* applied index; SetReadOnlyMode is applied in either mode and returns
\* NoError; out of read-only mode no command is rejected with ReadOnlyMode.
ReadOnlyGate ==
  [][(StepIsNew /\ StepKind \in WriteTxnKinds) =>
       IF StepKind = "SetReadOnlyMode"
       THEN /\ last'.res = [Err |-> NoError]
            /\ state' = [state EXCEPT !.readOnly = last'.Cmd.ReadOnly,
                                      !.index = last'.Index]
       ELSE IF GetReadOnlyMode(state)
       THEN /\ last'.res = [Err |-> ErrReadOnlyMode]
            /\ state' = [state EXCEPT !.index = last'.Index]
       ELSE ErrOf(last'.res) # ErrReadOnlyMode]_vars

\* C3 witness: CreateBlob was rejected in read-only mode although a partition
\* had room for the blob.
ReadOnlyGateWitness ==
  /\ GetReadOnlyMode(state)
  /\ last.Cmd.kind = "CreateBlob"
  /\ ErrOf(last.res) = ErrReadOnlyMode
  /\ \E p \in DOMAIN state.partitions : HasBlobRoom(state.partitions[p])

HandlerErrors ==
  {ErrAlreadyExists, ErrNoSuchBlob, ErrNoSuchTract, ErrInvalidArgument,
   ErrExtendConflict, ErrConflictingState, ErrGenBlobID}

\* C4 (recoverable errors): when a handler returns an error other than
\* NoError, the transaction is committed all the same (the applied index is
\* the entry's index) and the partition, blob and rschunk buckets are as they
\* were before the Apply.
RecoverableErrors ==
  [][(StepIsNew /\ last'.outcome = "returned" /\ ErrOf(last'.res) \in HandlerErrors) =>
       /\ GetIndex(state') = last'.Index
       /\ state'.partitions = state.partitions
       /\ state'.blobs = state.blobs
       /\ state'.rschunks = state.rschunks]_vars

\* C4 witness: a ChangeTract with a stale version was rejected and its entry
\* is the applied one.
RecoverableErrorsWitness ==
  /\ last.Cmd.kind = "ChangeTract"
  /\ ErrOf(last.res) = ErrConflictingState
  /\ GetIndex(state) = last.Index

\* The step applies again, as a new entry, the ExtendBlob of the step before,
\* whose handler had found the blob live.
ExtendAgain ==
  /\ last.Cmd.kind = "ExtendBlob"
  /\ last.outcome = "returned"
  /\ ErrOf(last.res) \notin {ErrNoSuchBlob, ErrReadOnlyMode}
  /\ last'.Cmd = last.Cmd
  /\ StepIsNew

\* C5 as stated: for any live blob and any host-vector list, the second of
\* two ExtendBlob with the same firstTractKey and hosts returns
\* ExtendConflict and leaves the tract list as it was.
ExtendTwiceAnyHosts ==
  [][ExtendAgain =>
       /\ ErrOf(last'.res) = ErrExtendConflict
       /\ state'.blobs = state.blobs]_vars

\* C5 (extend idempotence), amended: when an ExtendBlob with a non-empty
\* host-vector list has succeeded, the same command applied again at a later
\* index returns ExtendConflict and leaves the blob's tracts unchanged: the
\* blob has firstTractKey + len(hosts) tracts, one append and no more.
ExtendTwice ==
  [][(ExtendAgain /\ ErrOf(last.res) = NoError /\ last.Cmd.Hosts # <<>>) =>
       /\ ErrOf(last'.res) = ErrExtendConflict
       /\ state'.blobs = state.blobs
       /\ Len(state'.blobs[last.Cmd.ID].Tracts)
            = last.Cmd.FirstTractKey + Len(last.Cmd.Hosts)]_vars

\* C5 witness: an ExtendBlob was rejected with ExtendConflict on a live blob
\* whose last tracts are the ones the command names, at version 1.
ExtendTwiceWitness ==
  /\ last.Cmd.kind = "ExtendBlob"
  /\ ErrOf(last.res) = ErrExtendConflict
  /\ last.Cmd.Hosts # <<>>
  /\ GetBlob(state, last.Cmd.ID) # Nil
  /\ LET tracts == state.blobs[last.Cmd.ID].Tracts
         f == last.Cmd.FirstTractKey
     IN /\ Len(tracts) = f + Len(last.Cmd.Hosts)
        /\ \A i \in DOMAIN last.Cmd.Hosts :
             tracts[f + i] = [Hosts |-> last.Cmd.Hosts[i], Version |-> 1]

\* C6 (ChangeTract): the handler succeeds exactly when the blob is live, the
\* tract exists, the new hosts are as many as the tract's and the new version
\* is the tract's version + 1; on success that tract gets the new hosts and
\* its version + 1, and every other tract and blob is unchanged.
ChangeTractExact ==
  [][StepHandled("ChangeTract") =>
       LET c == last'.Cmd
           id == c.ID.Blob
           i == c.ID.Index + 1
           live == id \in DOMAIN state.blobs /\ state.blobs[id].Deleted = 0
           ok == /\ live
                 /\ i \in DOMAIN state.blobs[id].Tracts
                 /\ Len(c.NewHosts) = Len(state.blobs[id].Tracts[i].Hosts)
                 /\ c.NewVersion = state.blobs[id].Tracts[i].Version + 1
       IN /\ (last'.outcome = "returned" /\ ErrOf(last'.res) = NoError) <=> ok
          /\ ok => state'.blobs =
                     [state.blobs EXCEPT ![id].Tracts[i] =
                        [Hosts |-> c.NewHosts, Version |-> @.Version + 1]]]_vars

\* C6 witness: a ChangeTract succeeded and the tract has the new hosts at
\* version 2.
ChangeTractExactWitness ==
  /\ last.Cmd.kind = "ChangeTract"
  /\ ErrOf(last.res) = NoError
  /\ state.blobs[last.Cmd.ID.Blob].Tracts[last.Cmd.ID.Index + 1]
       = [Hosts |-> last.Cmd.NewHosts, Version |-> 2]

\* C7 (CreateBlob): the handler allocates from the lowest-id partition whose
\* next_blob_key is below MaxBlobKey: it returns (that partition, its
\* next_blob_key), increments that next_blob_key by one and touches no other
\* partition; the new blob has no tracts and Mtime = Atime = initialTime, the
\* other blobs are unchanged.  Without such a partition it returns GenBlobID
\* and creates nothing.
CreateBlobAllocates ==
  [][StepHandled("CreateBlob") =>
       LET parts == state.partitions
           room == {p \in DOMAIN parts : parts[p].NextBlobKey < MaxBlobKey}
       IN IF room = {}
          THEN /\ ErrOf(last'.res) = ErrGenBlobID
               /\ state'.blobs = state.blobs
               /\ state'.partitions = parts
          ELSE LET p == CHOOSE x \in room : \A y \in room : x <= y
                   id == <<p, parts[p].NextBlobKey>>
               IN /\ last'.res = [ID |-> id, Err |-> NoError]
                  /\ state'.partitions = [parts EXCEPT ![p].NextBlobKey = @ + 1]
                  /\ DOMAIN state'.blobs = DOMAIN state.blobs \cup {id}
                  /\ \A b \in DOMAIN state.blobs \ {id} : state'.blobs[b] = state.blobs[b]
                  /\ state'.blobs[id].Tracts = <<>>
                  /\ state'.blobs[id].Mtime = last'.Cmd.InitialTime
                  /\ state'.blobs[id].Atime = last'.Cmd.InitialTime]_vars

\* C7 witness: partition 1 is full and the blob was created in partition 2.
CreateBlobAllocatesWitness ==
  /\ last.Cmd.kind = "CreateBlob"
  /\ ErrOf(last.res) = NoError
  /\ last.res.ID[1] = 2
  /\ 1 \in DOMAIN state.partitions
  /\ state.partitions[1].NextBlobKey = MaxBlobKey

\* C8 (partitions are kept): no command removes a partition; AddPartition of
\* an existing id returns AlreadyExists and leaves the partition bucket as it
\* is, of a new id inserts it with next_blob_key = 1; SyncPartitions returns
\* NoError, inserts exactly the ids that were missing, each with
\* next_blob_key = 1, and leaves the existing records alone.
PartitionsKept ==
  [][/\ DOMAIN state.partitions \subseteq DOMAIN state'.partitions
     /\ StepHandled("AddPartition") =>
          LET id == last'.Cmd.ID
          IN IF id \in DOMAIN state.partitions
             THEN /\ ErrOf(last'.res) = ErrAlreadyExists
                  /\ state'.partitions = state.partitions
             ELSE /\ ErrOf(last'.res) = NoError
                  /\ DOMAIN state'.partitions = DOMAIN state.partitions \cup {id}
                  /\ state'.partitions[id].NextBlobKey = 1
                  /\ \A p \in DOMAIN state.partitions :
                       state'.partitions[p] = state.partitions[p]
     /\ StepHandled("SyncPartitions") =>
          /\ ErrOf(last'.res) = NoError
          /\ DOMAIN state'.partitions =
               DOMAIN state.partitions \cup Range(last'.Cmd.Partitions)
          /\ \A p \in DOMAIN state'.partitions :
               IF p \in DOMAIN state.partitions
               THEN state'.partitions[p] = state.partitions[p]
               ELSE state'.partitions[p].NextBlobKey = 1]_vars

\* C8 witness: AddPartition was rejected for a partition that has handed out
\* a blob key.
PartitionsKeptWitness ==
  /\ last.Cmd.kind = "AddPartition"
  /\ ErrOf(last.res) = ErrAlreadyExists
  /\ state.partitions[last.Cmd.ID].NextBlobKey > 1

\* C9 (replication factor): every tract of every stored blob has exactly
\* blob.repl hosts.
TractsHaveReplHosts ==
  \A b \in DOMAIN state.blobs :
    \A i \in DOMAIN state.blobs[b].Tracts :
      Len(state.blobs[b].Tracts[i].Hosts) = state.blobs[b].Repl

\* C9 witness: a blob with the largest replication factor has a tract that
\* ChangeTract has reconfigured.
TractsHaveReplHostsWitness ==
  \E b \in DOMAIN state.blobs :
    /\ state.blobs[b].Repl = MaxRepl
    /\ \E i \in DOMAIN state.blobs[b].Tracts : state.blobs[b].Tracts[i].Version = 2

\* C10 (divergence detector): VerifyChecksum is fatal exactly when the cached
\* checksum index equals the expected index and the cached checksum differs
\* from the expected one, and changes neither the database nor the cache; the
\* cache holds the index and the result of the last Checksum executed, which
\* changes nothing in the database either.
DivergenceDetector ==
  [][/\ (StepIsNew /\ StepKind = "VerifyChecksum") =>
          /\ halted' <=> (checksumIndex = last'.Cmd.Index
                          /\ checksum # last'.Cmd.Checksum)
          /\ (last'.outcome = "fatal") <=> halted'
          /\ UNCHANGED <<state, checksum, checksumIndex>>
     /\ (StepIsNew /\ StepKind = "Checksum") =>
          /\ checksumIndex' = last'.Index
          /\ checksum' = last'.res.Checksum
          /\ UNCHANGED <<state, halted>>]_vars

\* C10 witness: a VerifyChecksum for the index of an executed Checksum was
\* fatal.
DivergenceDetectorWitness ==
  /\ last.Cmd.kind = "VerifyChecksum"
  /\ last.outcome = "fatal"
  /\ checksumIndex > 0
  /\ halted

\* C11 (determinism): two replicas that apply the same log from a fresh
\* state, either of which may crash and be handed already applied entries
\* again, have the same database whenever they are at the same applied index
\* (every bucket, the read-only flag included); all replicas return the same
\* result for the Checksum command at a log index; and a VerifyChecksum that
\* carries a replica's Checksum result is fatal on no replica.
Determinism ==
  /\ GetIndex(peer.state) = GetIndex(state) => peer.state = state
  /\ \A k \in DOMAIN answers : Cardinality(answers[k]) <= 1
  /\ last.outcome # "fatal"
  /\ peer.last.outcome # "fatal"

\* C11 witness: the other replica has verified a Checksum result at the index
\* of its own cached checksum, with a blob in the database, and this replica
\* is skipping entries after a crash.
DeterminismWitness ==
  /\ last.outcome = "skipped"
  /\ peer.last.Cmd.kind = "VerifyChecksum"
  /\ peer.last.outcome = "returned"
  /\ peer.checksumIndex = peer.last.Cmd.Index
  /\ DOMAIN peer.state.blobs # {}
  /\ peer.state = state

\* C12 (RS chunk id allocation): AllocateRSChunkIDs(N), N >= 1, is served by
\* the lowest-id partition with next_rs_chunk_key + N <= MaxRSChunkKey: the
\* range returned starts at that partition's counter (at 1 when the counter
\* was 0), the counter becomes start + N and no other partition changes; the
\* range lies within 1..MaxRSChunkKey and shares no key with a range handed
\* out before in that partition.  When no partition fits, the command returns
\* GenBlobID and changes nothing.  No command moves a counter backwards.
AllocationsDisjoint ==
  [][/\ \A p \in DOMAIN state.partitions :
          state'.partitions[p].NextRsChunkKey >= state.partitions[p].NextRsChunkKey
     /\ StepHandled("AllocateRSChunkIDs") =>
          LET parts == state.partitions
              n == last'.Cmd.N
              fits == {p \in DOMAIN parts : parts[p].NextRsChunkKey + n <= MaxRSChunkKey}
          IN IF fits = {}
             THEN /\ ErrOf(last'.res) = ErrGenBlobID
                  /\ state' = [state EXCEPT !.index = last'.Index]
                  /\ history' = history
             ELSE LET p == CHOOSE x \in fits : \A y \in fits : x <= y
                      start == IF parts[p].NextRsChunkKey = 0 THEN 1
                               ELSE parts[p].NextRsChunkKey
                      range == {<<<<RSPartition, p>>, key>> : key \in start..(start + n - 1)}
                  IN /\ last'.res = [ID |-> RSChunkID(p, start), Err |-> NoError]
                     /\ state'.partitions = [parts EXCEPT ![p].NextRsChunkKey = start + n]
                     /\ \A key \in start..(start + n - 1) : key \in 1..MaxRSChunkKey
                     /\ range \cap history.allocated = {}
                     /\ history'.allocated = history.allocated \cup range]_vars

\* C12 witness: partition 1 has handed out two ranges and cannot serve the
\* request, which partition 2 has served from key 1.
AllocationsDisjointWitness ==
  /\ last.Cmd.kind = "AllocateRSChunkIDs"
  /\ ErrOf(last.res) = NoError
  /\ last.res.ID = RSChunkID(2, 1)
  /\ {<<<<RSPartition, 1>>, key>> : key \in 1..(MaxRSChunkKey - 1)} \subseteq history.allocated

\* C13 (CuratorID is set once): SetRegistration(id) stores id only when no
\* valid CuratorID is stored and returns the CuratorID stored after it; once
\* a valid CuratorID is stored, no command changes it.
CuratorIDSetOnce ==
  [][/\ IsValid(GetCuratorID(state)) => GetCuratorID(state') = GetCuratorID(state)
     /\ StepHandled("SetRegistration") =>
          /\ GetCuratorID(state') =
               IF IsValid(GetCuratorID(state)) THEN GetCuratorID(state)
               ELSE last'.Cmd.ID
          /\ last'.res = [ID |-> GetCuratorID(state')]
     /\ (StepIsNew /\ StepKind # "SetRegistration") =>
          GetCuratorID(state') = GetCuratorID(state)]_vars

\* C13 witness: a SetRegistration with another id has returned the id that
\* was stored before it.
CuratorIDSetOnceWitness ==
  /\ last.Cmd.kind = "SetRegistration"
  /\ last.outcome = "returned"
  /\ ErrOf(last.res) = "none"
  /\ last.res.ID # last.Cmd.ID
  /\ IsValid(last.res.ID)
  /\ GetCuratorID(state) = last.res.ID

\* C14 (isolation): a read-only transaction reads the database as committed
\* when it started, for as long as it is open: one opened while a write
\* transaction is uncommitted sees none of the writer's partitions and blobs
\* and the applied index from before the writer, also after the writer has
\* committed; one opened after the commit sees all of the writes and the
\* writer's index.
Isolation ==
  [][/\ txns'.reader # Nil => txns'.reader.view = txns'.reader.committed
     /\ (txns.reader = Nil /\ txns'.reader # Nil) => txns'.reader.view = state
     /\ (txns.reader # Nil /\ txns'.reader # Nil) => txns'.reader.view = txns.reader.view
     /\ (txns.writer # Nil /\ txns'.writer = Nil) =>
          /\ GetIndex(state') = txns.writer.index
          /\ state'.partitions = txns.writer.txn.partitions
          /\ state'.blobs = txns.writer.txn.blobs]_vars

\* C14 witness: a read-only transaction that started while a write
\* transaction had put a partition and a blob is still open after the commit
\* and sees neither, nor the new index.
IsolationWitness ==
  /\ txns.reader # Nil
  /\ txns.reader.writing
  /\ txns.writer = Nil
  /\ GetIndex(state) > GetIndex(txns.reader.view)
  /\ GetPartition(state, 1) # Nil
  /\ GetPartition(txns.reader.view, 1) = Nil
  /\ GetBlob(state, BlobIDFromParts(1, 1)) # Nil
  /\ GetBlob(txns.reader.view, BlobIDFromParts(1, 1)) = Nil

\* C15 (soft-delete visibility): after a DeleteBlob(id) that succeeded,
\* GetBlob(id) returns nothing and GetBlobAll(id) returns the record, now
\* with its delete time; after FinishDelete(ids), GetBlob and GetBlobAll
\* return nothing for every id listed; a stored blob without a delete time is
\* returned by both.
SoftDeleteVisibility ==
  [][/\ (StepHandled("DeleteBlob") /\ ErrOf(last'.res) = NoError) =>
          /\ GetBlob(state', last'.Cmd.ID) = Nil
          /\ GetBlobAll(state', last'.Cmd.ID) =
               [state.blobs[last'.Cmd.ID] EXCEPT !.Deleted = last'.Cmd.When]
     /\ StepHandled("FinishDelete") =>
          \A id \in Range(last'.Cmd.Blobs) :
            /\ GetBlob(state', id) = Nil
            /\ GetBlobAll(state', id) = Nil
     /\ \A b \in DOMAIN state'.blobs :
          state'.blobs[b].Deleted = 0 =>
            /\ GetBlob(state', b) = state'.blobs[b]
            /\ GetBlobAll(state', b) = state'.blobs[b]]_vars

\* C15 witness: a blob with a tract has been soft-deleted: GetBlob does not
\* return it, GetBlobAll does.
SoftDeleteVisibilityWitness ==
  /\ last.Cmd.kind = "DeleteBlob"
  /\ ErrOf(last.res) = NoError
  /\ GetBlob(state, last.Cmd.ID) = Nil
  /\ GetBlobAll(state, last.Cmd.ID) # Nil
  /\ GetBlobAll(state, last.Cmd.ID).Tracts # <<>>

\* The EncodedTract entries of a data piece that belong to none of `ids`.
EntriesOfOthers(piece, ids) == SelectSeq(piece, LAMBDA e : e.ID.Blob \notin ids)

\* C16 (RS purge): after FinishDelete(ids), no RS chunk has an EncodedTract
\* whose TractID belongs to a blob in ids; the entries of all other blobs are
\* the same, in the same pieces and the same order; every chunk is still
\* there with its hosts and storage class unchanged.
RSPurge ==
  [][StepHandled("FinishDelete") =>
       LET ids == Range(last'.Cmd.Blobs)
       IN /\ DOMAIN state'.rschunks = DOMAIN state.rschunks
          /\ \A c \in DOMAIN state.rschunks :
               LET old == state.rschunks[c]
                   new == state'.rschunks[c]
               IN /\ new.Hosts = old.Hosts
                  /\ new.Storage = old.Storage
                  /\ DOMAIN new.Data = DOMAIN old.Data
                  /\ \A i \in DOMAIN old.Data :
                       /\ \A j \in DOMAIN new.Data[i] : new.Data[i][j].ID.Blob \notin ids
                       /\ new.Data[i] = EntriesOfOthers(old.Data[i], ids)]_vars

\* C16 witness: a FinishDelete of one blob has left a chunk with a piece that
\* still holds the other blob's tract and a piece that is now empty.
RSPurgeWitness ==
  /\ last.Cmd.kind = "FinishDelete"
  /\ last.Cmd.Blobs = <<BlobIDFromParts(1, 1)>>
  /\ \E c \in DOMAIN state.rschunks :
       /\ state.rschunks[c].Data[1] =
            <<EncodedTract(TractIDFromParts(BlobIDFromParts(1, 2), 0))>>
       /\ state.rschunks[c].Data[2] = <<>>
       /\ state.rschunks[c].Hosts = <<MaxRepl, 1>>

\* The tractserver ids the blobs and RS chunks of a database refer to.
ReferencedTSIDs(t) ==
  UNION ({BlobTSIDs(t.blobs[b]) : b \in DOMAIN t.blobs}
           \cup {ChunkTSIDs(t.rschunks[c]) : c \in DOMAIN t.rschunks})
\* The tractserver ids an entry wrote, given what became of it.
WrittenBy(l) ==
  IF l.outcome = "returned" /\ ErrOf(l.res) = NoError THEN HostsWritten(l.Cmd) ELSE {}
Ascending(seq) == \A i, j \in DOMAIN seq : i < j => seq[i] < seq[j]

\* C17 as stated (TSID cache growth): once the cache exists GetKnownTSIDs
\* returns the union of all host ids ever written by blob and RS-chunk
\* writes.
TSIDCacheEverWritten ==
  state.hasTSIDs => Range(GetKnownTSIDs(state).ids) = history.written

\* C17 amended: GetKnownTSIDs fails until CreateTSIDCache has been applied;
\* the first CreateTSIDCache makes it return the host ids that the blobs and
\* RS chunks stored at that moment refer to; from then on every step adds
\* exactly the host ids it writes and removes none, and the result is in
\* ascending order without duplicates.  Host ids written and dropped before
\* the cache was created are not in it.
TSIDCacheGrowth ==
  [][LET old == GetKnownTSIDs(state)
         new == GetKnownTSIDs(state')
     IN /\ (old.err # NoError /\ ~StepHandled("CreateTSIDCache")) => new.err # NoError
        /\ (old.err # NoError /\ StepHandled("CreateTSIDCache")) =>
             new.err = NoError /\ Range(new.ids) = ReferencedTSIDs(state)
        /\ old.err = NoError =>
             /\ new.err = NoError
             /\ Range(new.ids) = Range(old.ids) \cup WrittenBy(last')
        /\ Ascending(new.ids)
        /\ Range(new.ids) \subseteq history'.written]_vars

\* C17 witness: the cache holds a tractserver that nothing refers to any
\* more, after a blob's tract moved or the blob was removed.
TSIDCacheGrowthWitness ==
  /\ GetKnownTSIDs(state).ids = <<1, MaxRepl>>
  /\ ReferencedTSIDs(state) # TSIDs
  /\ last.Cmd.kind \in {"ChangeTract", "FinishDelete", "UpdateRSHosts"}
  /\ last.outcome = "returned"
  /\ ErrOf(last.res) = NoError

\* The largest of a non-empty finite set of numbers.
MaxOf(S) == CHOOSE m \in S : \A x \in S : x <= m
\* The mtime and the atime values a batch gives for a blob.
MTimesFor(updates, b) == {updates[i].MTime : i \in {j \in DOMAIN updates : updates[j].Blob = b}}
ATimesFor(updates, b) == {updates[i].ATime : i \in {j \in DOMAIN updates : updates[j].Blob = b}}

\* C18 (UpdateTimes): the handler returns NoError; every live blob's Mtime
\* becomes the largest of its old Mtime and the mtime values the batch gives
\* for it (0 never being larger), likewise its Atime, whatever the order of
\* the updates; nothing else of a blob changes, no blob is created for an
\* update that names none, and partitions and RS chunks are as before.
UpdateTimesMax ==
  [][StepHandled("UpdateTimes") =>
       LET updates == last'.Cmd.Updates
       IN /\ last'.outcome = "returned"
          /\ last'.res = [Err |-> NoError]
          /\ DOMAIN state'.blobs = DOMAIN state.blobs
          /\ \A b \in DOMAIN state.blobs :
               state.blobs[b].Deleted = 0 =>
                 state'.blobs[b] =
                   [state.blobs[b] EXCEPT
                      !.Mtime = MaxOf({@} \cup MTimesFor(updates, b)),
                      !.Atime = MaxOf({@} \cup ATimesFor(updates, b))]
          /\ state'.partitions = state.partitions
          /\ state'.rschunks = state.rschunks]_vars

\* C18 witness: a batch with two updates of one blob, the larger mtime first,
\* and an update of a blob that does not exist, has raised the blob's Mtime
\* and left its Atime.
UpdateTimesMaxWitness ==
  LET b == BlobIDFromParts(1, 1)
  IN /\ last.Cmd.kind = "UpdateTimes"
     /\ last.outcome = "returned"
     /\ last.Cmd.Updates = <<[Blob |-> b, MTime |-> MaxTime, ATime |-> 0],
                             [Blob |-> b, MTime |-> 1, ATime |-> 1]>>
     /\ b \in DOMAIN state.blobs
     /\ state.blobs[b].Mtime = MaxTime
     /\ state.blobs[b].Atime = 1
     /\ DOMAIN state.blobs = {b}

\* C19 as stated (ChangeTract of a tract that does not exist): for a live
\* blob with n tracts and a tract index i >= n, i = n included, the handler
\* returns a ChangeTractResult with NoSuchTract and the partitions, blobs and
\* RS chunks are as before.
NoSuchTractReturned ==
  [][LET c == last'.Cmd
         id == c.ID.Blob
     IN (/\ StepHandled("ChangeTract")
         /\ id \in DOMAIN state.blobs
         /\ state.blobs[id].Deleted = 0
         /\ c.ID.Index >= Len(state.blobs[id].Tracts)) =>
          /\ last'.outcome = "returned"
          /\ last'.res = [Err |-> ErrNoSuchTract]
          /\ state'.blobs = state.blobs
          /\ state'.partitions = state.partitions
          /\ state'.rschunks = state.rschunks]_vars

Lifecycle(t, b) ==
  IF b \notin DOMAIN t.blobs THEN "absent"
  ELSE IF t.blobs[b].Deleted = 0 THEN "live" ELSE "soft-deleted"

BlobIDsNeverReused ==
  [][/\ (StepHandled("CreateBlob") /\ ErrOf(last'.res) = NoError) =>
          /\ last'.res.ID \notin history.created
          /\ last'.res.ID[2] \notin {0, MaxBlobKey}
          /\ history'.created = history.created \cup {last'.res.ID}
     /\ \A b \in history'.purged :
          GetBlob(state', b) = Nil /\ GetBlobAll(state', b) = Nil]_vars

\* C22 witness: blob (1,1) was finish-deleted, later commands named it, and
\* the CreateBlob after them returned the next key of the same partition.
BlobIDsNeverReusedWitness ==
  /\ BlobIDFromParts(1, 1) \in history.purged
  /\ last.Cmd.kind = "CreateBlob"
  /\ last.res = [ID |-> BlobIDFromParts(1, 2), Err |-> NoError]
  /\ last.Index = IdMaxIndex
  /\ BlobIDFromParts(1, 2) \in DOMAIN state.blobs

\* The three leadership fields of `f` were stored by one notification.
OneNotification(f) == f.isLeader = f.term /\ f.term = f.leaderID

\* C23 (leadership notifications): while a reader holds the lock the three
\* leadership fields come from one notification, and so does what the reader
\* has read when it lets go; the hook is called once per notification, in
\* order, with that notification's value, when its three fields are stored
\* and the notification no longer holds the lock; no statement of
\* OnLeadershipChange, OnMembershipChange or the reader changes the database
\* (buckets, applied index) or the checksum cache.
LeadershipNotifications ==
  [][/\ handler'.lock.readers > 0 => OneNotification(handler'.from)
     /\ (handler.reader.pc = "RUnlock" /\ handler'.reader.pc = "idle") =>
          OneNotification(handler'.reader.from)
     /\ handler'.hooks # handler.hooks =>
          LET c == handler.leadership
          IN /\ handler'.hooks = Append(handler.hooks, c.val)
             /\ handler.lock.writer # "leadership"
             /\ handler.from = [isLeader |-> c.n, term |-> c.n, leaderID |-> c.n]
             /\ handler.isLeader = c.val
             /\ handler.term = c.term
             /\ handler.leaderID = c.leader
     /\ LET calls == handler'.calls
            hooks == handler'.hooks
        IN /\ Len(hooks) <= Len(calls)
           /\ \A i \in DOMAIN hooks : hooks[i] = calls[i]
           /\ Len(calls) - Len(hooks) = IF handler'.leadership.pc = "idle" THEN 0 ELSE 1
     /\ handler' # handler =>
          /\ state' = state
          /\ checksum' = checksum
          /\ checksumIndex' = checksumIndex]_vars

\* C23 witness: two notifications have been delivered and the hook called
\* for each; a reader that took the lock between them has read the three
\* fields of the first; an entry was applied meanwhile.
LeadershipNotificationsWitness ==
  /\ handler.hooks = <<TRUE, FALSE>>
  /\ handler.from = [isLeader |-> 2, term |-> 2, leaderID |-> 2]
  /\ handler.reader.pc = "idle"
  /\ handler.reader.from = [isLeader |-> 1, term |-> 1, leaderID |-> 1]
  /\ handler.reader.isLeader
  /\ handler.members # <<>>
  /\ GetIndex(state) = NotifyMaxIndex

====
